---- MODULE Spec2Model ----
(***************************************************************************)
(* Model of pkg/workloads/cortex/serve/start_uvicorn.py: the bootstrap of  *)
(* a Cortex serving process.  main() runs once, sequentially; every        *)
(* statement that reads the environment, calls a collaborator or touches   *)
(* the file system is one action.  A Python exception that nothing         *)
(* catches ends main(): the model moves to pc = "aborted" and records the  *)
(* exception in `error`.                                                   *)
(*                                                                         *)
(* Strings are sequences of one-character strings, so that int(), str(),   *)
(* split(), strip(), os.path.join() and the f-strings are computed rather  *)
(* than assumed.                                                           *)
(***************************************************************************)
EXTENDS Integers, Sequences, FiniteSets, TLC

\* ------------------------------------------------------------------ bounds
\* Largest CORTEX_PROCESSES_PER_REPLICA value the environment may hold.
MaxProcesses == 2

\* ------------------------------------------------------- program constants
\* interval=10 of both daemons.
Interval == 10

\* ------------------------------------------------------------ Python values
\* os.getenv(name) of a variable that is not set.  A sequence like every other
\* environment value, and unlike any string of characters.
Missing == <<"Missing">>

\* Values of the API spec document: a key that is absent, null, or an int.
Absent == [t |-> "absent", v |-> 0]
Null == [t |-> "null", v |-> 0]
JInt(n) == [t |-> "int", v |-> n]

Digits == <<"0", "1", "2", "3", "4", "5", "6", "7", "8", "9">>

IsDigit(c) == \E i \in 1..10 : Digits[i] = c

DigitValue(c) == (CHOOSE i \in 1..10 : Digits[i] = c) - 1

RECURSIVE IntDigits(_, _)
IntDigits(s, acc) ==
    IF s = <<>> THEN acc
    ELSE IntDigits(Tail(s), 10 * acc + DigitValue(Head(s)))

\* Whether int(s) returns: s is a non-empty string of decimal digits.  int(s)
\* raises ValueError otherwise.
IsInt(s) == s # <<>> /\ \A i \in 1..Len(s) : IsDigit(s[i])

\* int(s) where it returns.
int(s) == IntDigits(s, 0)

RECURSIVE StrDigits(_)
StrDigits(n) ==
    IF n < 10 THEN <<Digits[n + 1]>>
    ELSE Append(StrDigits(n \div 10), Digits[(n % 10) + 1])

\* str(n) of a non-negative int: its decimal digits, no leading zero.
str(n) == StrDigits(n)

\* Mutant: a variable that is not set reads as 0, as int(os.getenv(key, "0")).
environ_int_Default(v) ==
    IF v = Missing THEN [exc |-> "", val |-> 0]
    ELSE IF ~IsInt(v) THEN [exc |-> "ValueError", val |-> 0]
    ELSE [exc |-> "", val |-> int(v)]

\* int(os.environ[key]) where v is the variable's value: the exception it
\* raises ("" when none) and the value it returns.
environ_int(v) ==
    IF v = Missing THEN [exc |-> "KeyError", val |-> 0]
    ELSE IF ~IsInt(v) THEN [exc |-> "ValueError", val |-> 0]
    ELSE [exc |-> "", val |-> int(v)]

\* Mutant: the flag is tested with `is not None`, so "" counts as set.
Truthy_NotNone(v) == v # Missing

\* bool(v) of what os.getenv returns: None and "" are false.
Truthy(v) == v # Missing /\ v # <<>>

\* os.getenv(key, default)
getenv(v, default) == IF v = Missing THEN default ELSE v

RECURSIVE SplitFrom(_, _, _)
SplitFrom(s, sep, cur) ==
    IF s = <<>> THEN <<cur>>
    ELSE IF Head(s) = sep THEN <<cur>> \o SplitFrom(Tail(s), sep, <<>>)
    ELSE SplitFrom(Tail(s), sep, Append(cur, Head(s)))

\* s.split(sep) for a one-character separator.
split(s, sep) == SplitFrom(s, sep, <<>>)

RECURSIVE LStrip(_)
LStrip(s) == IF s # <<>> /\ Head(s) = " " THEN LStrip(Tail(s)) ELSE s

RECURSIVE RStrip(_)
RStrip(s) ==
    IF s # <<>> /\ s[Len(s)] = " " THEN RStrip(SubSeq(s, 1, Len(s) - 1)) ELSE s

\* s.strip()
strip(s) == RStrip(LStrip(s))

\* os.path.join(a, b) on POSIX.
path_join(a, b) ==
    IF b # <<>> /\ Head(b) = "/" THEN b
    ELSE IF a = <<>> \/ a[Len(a)] = "/" THEN a \o b
    ELSE a \o <<"/">> \o b

\* f"{host}:{port}" with port already a str.
Address(host, port) == host \o <<":">> \o port

\* ------------------------------------------------------------ input domains
\* Environment values the model draws from.
Localhost == <<"l", "o", "c", "a", "l", "h", "o", "s", "t">>
DefaultPort == <<"9", "0", "0", "0">>
NonNumeric == <<"x">>

RECURSIVE Counts(_)
Counts(n) == IF n = 0 THEN {str(0)} ELSE Counts(n - 1) \cup {str(n)}

\* CORTEX_MULTIPLE_TF_SERVERS / CORTEX_ACTIVE_NEURON: unset, empty, set.
FlagValues == {Missing, <<>>, <<"t", "r", "u", "e">>}
\* CORTEX_TF_BASE_SERVING_PORT; 9 makes base_port + w gain a digit.
PortValues == {Missing, NonNumeric, DefaultPort, <<"9">>}
\* CORTEX_PROCESSES_PER_REPLICA
ProcessValues == {Missing, NonNumeric} \cup Counts(MaxProcesses)
\* CORTEX_MODEL_DIR
DirValues == {Missing, <<"/", "m">>}
\* CORTEX_TF_SERVING_HOST
HostValues == {Missing, <<"t", "f", "s">>}
\* CORTEX_MODELS: one model, and two models with blanks around the names.
ModelsValues == {Missing, <<"a">>, <<"a", ",", " ", "b", " ">>}
\* CORTEX_PROVIDER, CORTEX_API_SPEC
NameValues == {Missing, <<"s">>}
\* CORTEX_SERVING_PORT, CORTEX_MAX_PROCESS_CONCURRENCY, CORTEX_SO_MAX_CONN
NumberValues == {Missing, NonNumeric, <<"8">>}

PredictorKinds == {"python", "tensorflow", "tensorflow_neuron", "onnx"}

\* api_spec["predictor"]["models"]: null, or a dict whose two cache keys are
\* each absent, null or a number.
CacheValues == {Absent, Null, JInt(1)}
ModelsSections ==
    {[t |-> "null", cache_size |-> Absent, disk_cache_size |-> Absent]}
    \cup [t : {"dict"}, cache_size : CacheValues, disk_cache_size : CacheValues]

\* The documents get_spec may return; "unknown" is a predictor type that
\* predictor_type_from_api_spec does not recognise.  processes_per_replica is
\* only compared with 1 (line 96) and the result is not used, so one number
\* stands for all.
ApiSpecs ==
    [type : PredictorKinds \cup {"unknown"},
     processes_per_replica : {Absent, JInt(2)},
     models : ModelsSections]

NoSpec == [type |-> "", processes_per_replica |-> Absent,
           models |-> [t |-> "null", cache_size |-> Absent, disk_cache_size |-> Absent]]

\* /run/used_ports.json: absent, zero bytes, part of a document, or a
\* complete JSON object (table: port string -> in-use flag).
NoFile == [state |-> "absent", table |-> <<>>]
StaleFile == [state |-> "complete", table |-> (<<"7">> :> TRUE)]

CronDirs == <<"/run/cron", "/tmp/cron">>

\* ------------------------------------------------------------------- state
\* The environment does not change while main() runs.  A variable that main()
\* reads in several places has its value from the start; one that is read in a
\* single place is Unread until that read draws its value.
Unread == <<"Unread">>

VARIABLES
    pc,             \* where main() is
    error,          \* the exception that ended main(), if any
    env,            \* os.environ
    file0,          \* /run/used_ports.json as main() found it
    file,           \* /run/used_ports.json
    dirs,           \* which of the cron directories exist
    used_ports,     \* main's local used_ports
    api_spec,       \* main's local api_spec
    predictor_type, \* main's local predictor_type
    caching_enabled,\* main's local caching_enabled
    taken,          \* the branches of the if / elif chain entered, in order
    tfs,            \* locals of load_tensorflow_serving_models
    tfs_config,     \* model configurations the backing servers hold
    cron,           \* the daemon started: "none", "running", "synced"
    calls           \* collaborator calls made so far, in order

vars == <<pc, error, env, file0, file, dirs, used_ports, api_spec, predictor_type,
          caching_enabled, taken, tfs, tfs_config, cron, calls>>

NoError == [exc |-> "", key |-> ""]

NoTfs == [host |-> <<>>, base_port |-> 0, models |-> <<>>, base_paths |-> <<>>,
          num_processes |-> 0, w |-> 0]

Init ==
    /\ pc = "log_config"
    /\ error = NoError
    /\ env \in [CORTEX_ACTIVE_NEURON : {Unread},
                CORTEX_MULTIPLE_TF_SERVERS : FlagValues,
                CORTEX_TF_BASE_SERVING_PORT : PortValues,
                CORTEX_PROCESSES_PER_REPLICA : ProcessValues,
                CORTEX_MODEL_DIR : DirValues,
                CORTEX_PROVIDER : {Unread},
                CORTEX_API_SPEC : {Unread},
                CORTEX_TF_SERVING_HOST : {Unread},
                CORTEX_MODELS : {Unread},
                CORTEX_SERVING_PORT : {Unread},
                CORTEX_MAX_PROCESS_CONCURRENCY : {Unread},
                CORTEX_SO_MAX_CONN : {Unread}]
    /\ file0 \in {NoFile, StaleFile}
    /\ file = file0
    /\ dirs \in {{}, {CronDirs[1], CronDirs[2]}}
    /\ used_ports = <<>>
    /\ api_spec = NoSpec
    /\ predictor_type = ""
    /\ caching_enabled = FALSE
    /\ taken = <<>>
    /\ tfs = NoTfs
    /\ tfs_config = {}
    /\ cron = "none"
    /\ calls = <<>>

\* An uncaught exception: main() ends here.
Raise(exc, key) ==
    /\ pc' = "aborted"
    /\ error' = [exc |-> exc, key |-> key]

\* A collaborator call is logged when it is made, whether or not it returns.
Call(c) == calls' = Append(calls, c)

\* --------------------------------------------------------------- main 68-69
\* open + yaml.load of the logging configuration.
LoadLogConfig ==
    /\ pc = "log_config"
    /\ \E ok \in BOOLEAN :
         IF ok THEN pc' = "neuron" /\ UNCHANGED error
         ELSE Raise("OSError", "log_config.yaml")
    /\ UNCHANGED <<cron, env, file0, file, dirs, used_ports, api_spec, predictor_type,
                   caching_enabled, taken, tfs, tfs_config, calls>>

\* --------------------------------------------------------------- main 72-74
WaitNeuron ==
    /\ pc = "neuron"
    /\ \E uses_inferentia \in FlagValues, ready \in BOOLEAN :
         /\ env' = [env EXCEPT !.CORTEX_ACTIVE_NEURON = uses_inferentia]
         /\ IF Truthy(uses_inferentia)
            THEN /\ Call([op |-> "wait_neuron_rtd", ok |-> ready])
                 /\ IF ready THEN pc' = "ports" /\ UNCHANGED error
                    ELSE Raise("SidecarNotReady", "wait_neuron_rtd")
            ELSE ready /\ pc' = "ports" /\ UNCHANGED <<error, calls>>
    /\ UNCHANGED <<cron, file0, file, dirs, used_ports, api_spec, predictor_type,
                   caching_enabled, taken, tfs, tfs_config>>

\* --------------------------------------------------------------- main 81-83
RECURSIVE UsedPortsLoop(_, _, _, _)
\* for w in range(num_processes): used_ports[str(base_serving_port + w)] = False
UsedPortsLoop(base_serving_port, num_processes, w, acc) ==
    IF w >= num_processes THEN acc
    ELSE UsedPortsLoop(base_serving_port, num_processes, w + 1,
                       [k \in (DOMAIN acc) \cup {str(base_serving_port + w)} |->
                           IF k = str(base_serving_port + w) THEN FALSE ELSE acc[k]])

\* Mutant: the loop runs to num_processes inclusive.
BuildUsedPorts_Inclusive(base_serving_port, num_processes) ==
    UsedPortsLoop(base_serving_port, num_processes + 1, 0, <<>>)

\* Mutant: the loop starts at 1 instead of 0.
BuildUsedPorts_FromOne(base_serving_port, num_processes) ==
    UsedPortsLoop(base_serving_port, num_processes, 1, <<>>)

BuildUsedPorts(base_serving_port, num_processes) ==
    UsedPortsLoop(base_serving_port, num_processes, 0, <<>>)

\* --------------------------------------------------------------- main 77-83
PlanPorts ==
    /\ pc = "ports"
    /\ LET has_multiple_tf_servers == env.CORTEX_MULTIPLE_TF_SERVERS
           base_serving_port == environ_int(env.CORTEX_TF_BASE_SERVING_PORT)
           num_processes == environ_int(env.CORTEX_PROCESSES_PER_REPLICA)
       IN  IF ~Truthy(has_multiple_tf_servers)
           THEN pc' = "get_spec" /\ UNCHANGED <<error, used_ports>>
           ELSE IF base_serving_port.exc # ""
           THEN /\ Raise(base_serving_port.exc, "CORTEX_TF_BASE_SERVING_PORT")
                /\ UNCHANGED used_ports
           ELSE IF num_processes.exc # ""
           THEN /\ Raise(num_processes.exc, "CORTEX_PROCESSES_PER_REPLICA")
                /\ UNCHANGED used_ports
           ELSE /\ used_ports' = BuildUsedPorts(base_serving_port.val, num_processes.val)
                /\ pc' = "open_ports"
                /\ UNCHANGED error
    /\ UNCHANGED <<cron, env, file0, file, dirs, api_spec, predictor_type, caching_enabled,
                   taken, tfs, tfs_config, calls>>

\* ------------------------------------------------------------------ main 84
\* open("/run/used_ports.json", "w+") creates or truncates the file.
OpenPorts ==
    /\ pc = "open_ports"
    /\ \E ok \in BOOLEAN :
         IF ok
         THEN /\ file' = [state |-> "empty", table |-> <<>>]
              /\ pc' = "dump_ports"
              /\ UNCHANGED error
         ELSE Raise("OSError", "used_ports.json") /\ UNCHANGED file
    /\ UNCHANGED <<cron, env, file0, dirs, used_ports, api_spec, predictor_type,
                   caching_enabled, taken, tfs, tfs_config, calls>>

\* The first `written` entries of a table, in the order the loop of lines
\* 82-83 inserted them (ascending port).
WrittenPrefix(table, written) ==
    [k \in {k \in DOMAIN table :
              Cardinality({j \in DOMAIN table : int(j) < int(k)}) < written}
        |-> table[k]]

\* Mutant: a failed write is swallowed and main() goes on.
DumpPorts_IgnoresFailure ==
    /\ pc = "dump_ports"
    /\ \E written \in 0..Cardinality(DOMAIN used_ports) :
         file' = [state |-> IF written = Cardinality(DOMAIN used_ports)
                            THEN "complete" ELSE "partial",
                  table |-> WrittenPrefix(used_ports, written)]
    /\ pc' = "get_spec"
    /\ UNCHANGED <<cron, error, env, file0, dirs, used_ports, api_spec, predictor_type,
                   caching_enabled, taken, tfs, tfs_config, calls>>

\* ------------------------------------------------------------------ main 85
\* json.dump and the close at the end of the with block: the document is
\* written in dict order; a failed write leaves the entries written so far.
DumpPorts ==
    /\ pc = "dump_ports"
    /\ \E written \in 0..Cardinality(DOMAIN used_ports), ok \in BOOLEAN :
         IF ok
         THEN /\ written = Cardinality(DOMAIN used_ports)
              /\ file' = [state |-> "complete", table |-> used_ports]
              /\ pc' = "get_spec"
              /\ UNCHANGED error
         ELSE /\ file' = [state |-> "partial",
                          table |-> WrittenPrefix(used_ports, written)]
              /\ Raise("OSError", "used_ports.json")
    /\ UNCHANGED <<cron, env, file0, dirs, used_ports, api_spec, predictor_type,
                   caching_enabled, taken, tfs, tfs_config, calls>>

\* --------------------------------------------------------------- main 88-93
\* CORTEX_CACHE_DIR, CORTEX_BUCKET and AWS_REGION are optional and only handed
\* on to get_spec, whose outcome is drawn here.
GetSpec ==
    /\ pc = "get_spec"
    /\ \E provider \in NameValues, spec_path \in NameValues :
         IF provider = Missing
         THEN /\ spec_path = Missing
              /\ env' = [env EXCEPT !.CORTEX_PROVIDER = provider]
              /\ Raise("KeyError", "CORTEX_PROVIDER")
              /\ UNCHANGED <<api_spec, calls>>
         ELSE IF spec_path = Missing
         THEN /\ env' = [env EXCEPT !.CORTEX_PROVIDER = provider,
                                    !.CORTEX_API_SPEC = spec_path]
              /\ Raise("KeyError", "CORTEX_API_SPEC")
              /\ UNCHANGED <<api_spec, calls>>
         ELSE /\ env' = [env EXCEPT !.CORTEX_PROVIDER = provider,
                                    !.CORTEX_API_SPEC = spec_path]
              /\ \/ /\ Call([op |-> "get_spec", ok |-> FALSE])
                    /\ Raise("SpecError", "get_spec")
                    /\ UNCHANGED api_spec
                 \/ \E spec \in ApiSpecs :
                      /\ Call([op |-> "get_spec", ok |-> TRUE])
                      /\ api_spec' = spec
                      /\ pc' = "classify"
                      /\ UNCHANGED error
    /\ UNCHANGED <<cron, file0, file, dirs, used_ports, predictor_type, caching_enabled,
                   taken, tfs, tfs_config>>

\* ------------------------------------------------------- cortex.lib.type
\* predictor_type_from_api_spec: the predictor type class of the spec's type
\* string; it raises for a string that names none.
KnownType(spec) == spec.type \in PredictorKinds

predictor_type_from_api_spec(spec) ==
    CASE spec.type = "python" -> "PythonPredictorType"
      [] spec.type = "tensorflow" -> "TensorFlowPredictorType"
      [] spec.type = "tensorflow_neuron" -> "TensorFlowNeuronPredictorType"
      [] spec.type = "onnx" -> "ONNXPredictorType"

\* --------------------------------------------------------------- 60-64
\* is_model_caching_enabled: "True" or "False", or the exception the
\* subscripts raise.  `and` does not evaluate its right operand when the left
\* one is false.
is_model_caching_enabled(spec) ==
    LET models == spec.models
    IN  IF models.t = "null" THEN "TypeError"
        ELSE IF models.cache_size = Absent THEN "KeyError"
        ELSE IF models.cache_size = Null THEN "False"
        ELSE IF models.disk_cache_size = Absent THEN "KeyError"
        ELSE IF models.disk_cache_size = Null THEN "False"
        ELSE "True"

\* --------------------------------------------------------------- main 95-98
Classify ==
    /\ pc = "classify"
    /\ IF ~KnownType(api_spec)
       THEN Raise("ValueError", "predictor.type")
            /\ UNCHANGED <<predictor_type, caching_enabled>>
       ELSE IF api_spec.processes_per_replica = Absent
       THEN Raise("KeyError", "processes_per_replica")
            /\ predictor_type' = predictor_type_from_api_spec(api_spec)
            /\ UNCHANGED caching_enabled
       ELSE IF is_model_caching_enabled(api_spec) \notin {"True", "False"}
       THEN Raise(is_model_caching_enabled(api_spec), "predictor.models")
            /\ predictor_type' = predictor_type_from_api_spec(api_spec)
            /\ UNCHANGED caching_enabled
       ELSE /\ predictor_type' = predictor_type_from_api_spec(api_spec)
            /\ caching_enabled' = (is_model_caching_enabled(api_spec) = "True")
            /\ IF env.CORTEX_MODEL_DIR = Missing
               THEN Raise("KeyError", "CORTEX_MODEL_DIR")
               ELSE pc' = "makedirs" /\ UNCHANGED error
    /\ UNCHANGED <<cron, env, file0, file, dirs, used_ports, api_spec, taken, tfs,
                   tfs_config, calls>>

\* ------------------------------------------------------------- main 101-103
\* Mutant: exist_ok is left out, so an existing directory is an error too.
makedirs_can_raise_NoExistOk(path, existing) == TRUE

\* Whether os.makedirs(path, exist_ok=True) can raise: not for a directory
\* that exists.
makedirs_can_raise(path, existing) == path \notin existing

\* The two cron directories are made in order; a failure of the first leaves
\* the second untried.
MakeDirs ==
    /\ pc = "makedirs"
    /\ IF caching_enabled
       THEN pc' = "dispatch" /\ UNCHANGED <<error, dirs, calls>>
       ELSE \E made \in 0..2 :
              /\ made < 2 => makedirs_can_raise(CronDirs[made + 1], dirs)
              /\ dirs' = dirs \cup {CronDirs[i] : i \in 1..made}
              /\ calls' = calls \o
                    [i \in 1..(IF made < 2 THEN made + 1 ELSE 2) |->
                        [op |-> "makedirs", path |-> CronDirs[i], ok |-> (i <= made)]]
              /\ IF made = 2 THEN pc' = "dispatch" /\ UNCHANGED error
                 ELSE Raise("OSError", CronDirs[made + 1])
    /\ UNCHANGED <<cron, env, file0, file, used_ports, api_spec, predictor_type,
                   caching_enabled, taken, tfs, tfs_config>>

\* ------------------------------------------------------------- main 106-129
\* Mutant: the first condition leaves the Neuron type out of its list.
Strategy_NeuronAsFileSync(ptype, caching) ==
    IF ~caching /\ ptype \notin {"TensorFlowPredictorType"}
    THEN "FileSync"
    ELSE IF ~caching /\ ptype = "TensorFlowPredictorType"
    THEN "BackingServerSync"
    ELSE "None"

\* Mutant: the first condition does not test caching_enabled.
Strategy_IgnoresCaching(ptype, caching) ==
    IF ptype \notin {"TensorFlowPredictorType", "TensorFlowNeuronPredictorType"}
    THEN "FileSync"
    ELSE IF ~caching /\ ptype = "TensorFlowPredictorType"
    THEN "BackingServerSync"
    ELSE IF ~caching /\ ptype = "TensorFlowNeuronPredictorType"
    THEN "BackingServerDirectLoad"
    ELSE "None"

\* The branch the if / elif chain takes.
Strategy(ptype, caching) ==
    IF ~caching /\ ptype \notin {"TensorFlowPredictorType", "TensorFlowNeuronPredictorType"}
    THEN "FileSync"
    ELSE IF ~caching /\ ptype = "TensorFlowPredictorType"
    THEN "BackingServerSync"
    ELSE IF ~caching /\ ptype = "TensorFlowNeuronPredictorType"
    THEN "BackingServerDirectLoad"
    ELSE "None"

\* Mutant: a start that raises is swallowed and main() goes on.
StartFileSync_IgnoresFailure ==
    /\ pc = "dispatch"
    /\ Strategy(predictor_type, caching_enabled) = "FileSync"
    /\ taken' = Append(taken, "FileSync")
    /\ \E ok \in BOOLEAN :
         /\ Call([op |-> "start", daemon |-> "FileBasedModelsTreeUpdater",
                  interval |-> Interval, api_spec |-> api_spec,
                  download_dir |-> env.CORTEX_MODEL_DIR, ok |-> ok])
         /\ cron' = IF ok THEN "running" ELSE cron
    /\ pc' = "launch"
    /\ UNCHANGED <<error, env, file0, file, dirs, used_ports, api_spec,
                   predictor_type, caching_enabled, tfs, tfs_config>>

\* 110-115: FileBasedModelsTreeUpdater(...).start()
StartFileSync ==
    /\ pc = "dispatch"
    /\ Strategy(predictor_type, caching_enabled) = "FileSync"
    /\ taken' = Append(taken, "FileSync")
    /\ \E ok \in BOOLEAN :
         /\ Call([op |-> "start", daemon |-> "FileBasedModelsTreeUpdater",
                  interval |-> Interval, api_spec |-> api_spec,
                  download_dir |-> env.CORTEX_MODEL_DIR, ok |-> ok])
         /\ IF ok THEN pc' = "launch" /\ cron' = "running" /\ UNCHANGED error
            ELSE Raise("DaemonError", "FileBasedModelsTreeUpdater") /\ UNCHANGED cron
    /\ UNCHANGED <<env, file0, file, dirs, used_ports, api_spec, predictor_type,
                   caching_enabled, tfs, tfs_config>>

\* 117-126: TFSModelLoader(...).start(); the port is used as the str it is.
StartTFSModelLoader ==
    /\ pc = "dispatch"
    /\ Strategy(predictor_type, caching_enabled) = "BackingServerSync"
    /\ taken' = Append(taken, "BackingServerSync")
    /\ \E host \in HostValues, ok \in BOOLEAN :
         LET tf_serving_port == getenv(env.CORTEX_TF_BASE_SERVING_PORT, DefaultPort)
             tf_serving_host == getenv(host, Localhost)
         IN  /\ env' = [env EXCEPT !.CORTEX_TF_SERVING_HOST = host]
             /\ Call([op |-> "start", daemon |-> "TFSModelLoader",
                      interval |-> Interval, api_spec |-> api_spec,
                      address |-> Address(tf_serving_host, tf_serving_port),
                      tfs_model_dir |-> env.CORTEX_MODEL_DIR,
                      download_dir |-> env.CORTEX_MODEL_DIR, ok |-> ok])
             /\ IF ok THEN pc' = "launch" /\ cron' = "running" /\ UNCHANGED error
                ELSE Raise("DaemonError", "TFSModelLoader") /\ UNCHANGED cron
    /\ UNCHANGED <<file0, file, dirs, used_ports, api_spec, predictor_type,
                   caching_enabled, tfs, tfs_config>>

\* 127-128: the call of load_tensorflow_serving_models()
EnterDirectLoad ==
    /\ pc = "dispatch"
    /\ Strategy(predictor_type, caching_enabled) = "BackingServerDirectLoad"
    /\ taken' = Append(taken, "BackingServerDirectLoad")
    /\ pc' = "load_init"
    /\ UNCHANGED <<cron, error, env, file0, file, dirs, used_ports, api_spec,
                   predictor_type, caching_enabled, tfs, tfs_config, calls>>

\* no branch of the chain is taken
NoStrategy ==
    /\ pc = "dispatch"
    /\ Strategy(predictor_type, caching_enabled) = "None"
    /\ taken' = Append(taken, "None")
    /\ pc' = "launch"
    /\ UNCHANGED <<cron, error, env, file0, file, dirs, used_ports, api_spec,
                   predictor_type, caching_enabled, tfs, tfs_config, calls>>

\* ------------------------------------------------------------------ 42-43, 54
RECURSIVE StripAll(_)
\* [model.strip() for model in models]
StripAll(names) ==
    IF names = <<>> THEN <<>> ELSE <<strip(Head(names))>> \o StripAll(Tail(names))

\* [os.path.join(model_dir, name) for name in models]
BasePaths(model_dir, names) ==
    [i \in 1..Len(names) |-> path_join(model_dir, names[i])]

\* Mutant: the flag is never looked at.
LoaderNumProcesses_AlwaysOne(e) == [exc |-> "", val |-> 1]

\* 48-51: one process unless CORTEX_MULTIPLE_TF_SERVERS is set; the
\* exception line 51 raises ("" when none) and num_processes.
LoaderNumProcesses(e) ==
    IF Truthy(e.CORTEX_MULTIPLE_TF_SERVERS)
    THEN environ_int(e.CORTEX_PROCESSES_PER_REPLICA)
    ELSE [exc |-> "", val |-> 1]

\* Mutant: the loop runs once more than range() does.
LoopContinues_OneMore(w, num_processes) == w <= num_processes

\* range(int(num_processes)) has a next element after w elements.
LoopContinues(w, num_processes) == w < num_processes

\* -------------------------------------------------------------------- 37-54
LoadInit ==
    /\ pc = "load_init"
    /\ LET port == getenv(env.CORTEX_TF_BASE_SERVING_PORT, DefaultPort)
           num_processes == LoaderNumProcesses(env)
       IN  IF env.CORTEX_MODEL_DIR = Missing
           THEN Raise("KeyError", "CORTEX_MODEL_DIR") /\ UNCHANGED <<env, tfs>>
           ELSE \E host \in HostValues :
             IF ~IsInt(port)
             THEN /\ env' = [env EXCEPT !.CORTEX_TF_SERVING_HOST = host]
                  /\ Raise("ValueError", "CORTEX_TF_BASE_SERVING_PORT")
                  /\ UNCHANGED tfs
             ELSE \E models_env \in ModelsValues :
               /\ env' = [env EXCEPT !.CORTEX_TF_SERVING_HOST = host,
                                     !.CORTEX_MODELS = models_env]
               /\ IF models_env = Missing
                  THEN Raise("KeyError", "CORTEX_MODELS") /\ UNCHANGED tfs
                  ELSE IF num_processes.exc # ""
                  THEN /\ Raise(num_processes.exc, "CORTEX_PROCESSES_PER_REPLICA")
                       /\ UNCHANGED tfs
                  ELSE LET models == StripAll(split(models_env, ","))
                       IN  /\ tfs' = [host |-> getenv(host, Localhost),
                                      base_port |-> int(port),
                                      models |-> models,
                                      base_paths |-> BasePaths(env.CORTEX_MODEL_DIR, models),
                                      num_processes |-> num_processes.val,
                                      w |-> 0]
                           /\ pc' = IF LoopContinues(0, num_processes.val)
                                    THEN "load_loop" ELSE "launch"
                           /\ UNCHANGED error
    /\ UNCHANGED <<cron, file0, file, dirs, used_ports, api_spec, predictor_type,
                   caching_enabled, taken, tfs_config, calls>>

\* Mutant: a call that returns marks its port as in use in the port table.
LoadCall_MarksPortInUse ==
    /\ pc = "load_loop"
    /\ LET address == Address(tfs.host, str(tfs.base_port + tfs.w))
       IN  \E ok \in BOOLEAN :
             /\ Call([op |-> "add_models_config", address |-> address,
                      models |-> tfs.models, base_paths |-> tfs.base_paths,
                      replace_models |-> FALSE, ok |-> ok])
             /\ IF ok
                THEN /\ tfs_config' = tfs_config \cup
                          {[address |-> address, models |-> tfs.models,
                            base_paths |-> tfs.base_paths]}
                     /\ tfs' = [tfs EXCEPT !.w = tfs.w + 1]
                     /\ file' = [state |-> "complete",
                                 table |-> (str(tfs.base_port + tfs.w) :> TRUE)
                                           @@ file.table]
                     /\ pc' = IF tfs.w + 1 < tfs.num_processes
                              THEN "load_loop" ELSE "launch"
                     /\ UNCHANGED error
                ELSE /\ Raise("TFSError", "add_models_config")
                     /\ UNCHANGED <<tfs, tfs_config, file>>
    /\ UNCHANGED <<cron, env, file0, dirs, used_ports, api_spec, predictor_type,
                   caching_enabled, taken>>

\* Mutant: a call that raises is tried once more before main() gives up.
LoadCall_RetriesOnce ==
    /\ pc = "load_loop"
    /\ LET address == Address(tfs.host, str(tfs.base_port + tfs.w))
           failed_before == \E i \in 1..Len(calls) :
                               /\ calls[i].op = "add_models_config"
                               /\ ~calls[i].ok
       IN  \E ok \in BOOLEAN :
             /\ Call([op |-> "add_models_config", address |-> address,
                      models |-> tfs.models, base_paths |-> tfs.base_paths,
                      replace_models |-> FALSE, ok |-> ok])
             /\ IF ok
                THEN /\ tfs_config' = tfs_config \cup
                          {[address |-> address, models |-> tfs.models,
                            base_paths |-> tfs.base_paths]}
                     /\ tfs' = [tfs EXCEPT !.w = tfs.w + 1]
                     /\ pc' = IF tfs.w + 1 < tfs.num_processes
                              THEN "load_loop" ELSE "launch"
                     /\ UNCHANGED error
                ELSE IF failed_before
                THEN Raise("TFSError", "add_models_config")
                     /\ UNCHANGED <<tfs, tfs_config>>
                ELSE UNCHANGED <<pc, error, tfs, tfs_config>>
    /\ UNCHANGED <<cron, env, file0, file, dirs, used_ports, api_spec,
                   predictor_type, caching_enabled, taken>>

\* Mutant: a call that raises is swallowed and the loop goes on.
LoadCall_ContinuesOnFailure ==
    /\ pc = "load_loop"
    /\ LET address == Address(tfs.host, str(tfs.base_port + tfs.w))
       IN  \E ok \in BOOLEAN :
             /\ Call([op |-> "add_models_config", address |-> address,
                      models |-> tfs.models, base_paths |-> tfs.base_paths,
                      replace_models |-> FALSE, ok |-> ok])
             /\ tfs_config' = IF ok
                              THEN tfs_config \cup
                                     {[address |-> address, models |-> tfs.models,
                                       base_paths |-> tfs.base_paths]}
                              ELSE tfs_config
             /\ tfs' = [tfs EXCEPT !.w = tfs.w + 1]
             /\ pc' = IF LoopContinues(tfs.w + 1, tfs.num_processes)
                      THEN "load_loop" ELSE "launch"
    /\ UNCHANGED <<cron, error, env, file0, file, dirs, used_ports, api_spec,
                   predictor_type, caching_enabled, taken>>

\* -------------------------------------------------------------------- 55-57
\* One pass of the loop body.  A call that raises ends main(); one that
\* returns has added the configuration to that backing server.
LoadCall ==
    /\ pc = "load_loop"
    /\ LET address == Address(tfs.host, str(tfs.base_port + tfs.w))
       IN  \E ok \in BOOLEAN :
             /\ Call([op |-> "add_models_config", address |-> address,
                      models |-> tfs.models, base_paths |-> tfs.base_paths,
                      replace_models |-> FALSE, ok |-> ok])
             /\ IF ok
                THEN /\ tfs_config' = tfs_config \cup
                          {[address |-> address, models |-> tfs.models,
                            base_paths |-> tfs.base_paths]}
                     /\ tfs' = [tfs EXCEPT !.w = tfs.w + 1]
                     /\ pc' = IF LoopContinues(tfs.w + 1, tfs.num_processes)
                              THEN "load_loop" ELSE "launch"
                     /\ UNCHANGED error
                ELSE /\ Raise("TFSError", "add_models_config")
                     /\ UNCHANGED <<tfs, tfs_config>>
    /\ UNCHANGED <<cron, env, file0, file, dirs, used_ports, api_spec, predictor_type,
                   caching_enabled, taken>>

\* ------------------------------------------------------------- main 131-134
\* Mutant: the TODO of line 131 done, main() waits for the daemon's first pass.
ReadyToLaunch_AfterFirstPass == pc = "launch" /\ cron # "running"

\* Nothing stands between the dispatch and uvicorn.run: line 131 is a comment.
ReadyToLaunch == pc = "launch"

\* ------------------------------------------------------------- main 134-145
\* The arguments are evaluated in order, then uvicorn.run is called.  A read
\* that raises leaves the later variables unread.
Launch ==
    /\ ReadyToLaunch
    /\ \E serving_port \in NumberValues :
         LET port == environ_int(serving_port)
             workers == environ_int(env.CORTEX_PROCESSES_PER_REPLICA)
         IN  IF port.exc # ""
             THEN /\ env' = [env EXCEPT !.CORTEX_SERVING_PORT = serving_port]
                  /\ Raise(port.exc, "CORTEX_SERVING_PORT")
                  /\ UNCHANGED calls
             ELSE IF workers.exc # ""
             THEN /\ env' = [env EXCEPT !.CORTEX_SERVING_PORT = serving_port]
                  /\ Raise(workers.exc, "CORTEX_PROCESSES_PER_REPLICA")
                  /\ UNCHANGED calls
             ELSE \E concurrency \in NumberValues :
               LET limit_concurrency == environ_int(concurrency)
               IN  IF limit_concurrency.exc # ""
                   THEN /\ env' = [env EXCEPT
                                     !.CORTEX_SERVING_PORT = serving_port,
                                     !.CORTEX_MAX_PROCESS_CONCURRENCY = concurrency]
                        /\ Raise(limit_concurrency.exc, "CORTEX_MAX_PROCESS_CONCURRENCY")
                        /\ UNCHANGED calls
                   ELSE \E so_max_conn \in NumberValues :
                     LET backlog == environ_int(so_max_conn)
                     IN  /\ env' = [env EXCEPT
                                      !.CORTEX_SERVING_PORT = serving_port,
                                      !.CORTEX_MAX_PROCESS_CONCURRENCY = concurrency,
                                      !.CORTEX_SO_MAX_CONN = so_max_conn]
                         /\ IF backlog.exc # ""
                            THEN /\ Raise(backlog.exc, "CORTEX_SO_MAX_CONN")
                                 /\ UNCHANGED calls
                            ELSE /\ Call([op |-> "uvicorn.run", host |-> "0.0.0.0",
                                          port |-> port.val, workers |-> workers.val,
                                          limit_concurrency |-> limit_concurrency.val,
                                          backlog |-> backlog.val])
                                 /\ pc' = "serving"
                                 /\ UNCHANGED error
    /\ UNCHANGED <<cron, file0, file, dirs, used_ports, api_spec, predictor_type,
                   caching_enabled, taken, tfs, tfs_config>>

\* uvicorn.run returns when the server is shut down, and main() with it.
RuntimeExit ==
    /\ pc = "serving"
    /\ pc' = "exited"
    /\ UNCHANGED <<cron, error, env, file0, file, dirs, used_ports, api_spec,
                   predictor_type, caching_enabled, taken, tfs, tfs_config, calls>>

\* The steps of main().
MainNext ==
    \/ LoadLogConfig
    \/ WaitNeuron
    \/ PlanPorts
    \/ OpenPorts
    \/ DumpPorts
    \/ GetSpec
    \/ Classify
    \/ MakeDirs
    \/ StartFileSync
    \/ StartTFSModelLoader
    \/ EnterDirectLoad
    \/ NoStrategy
    \/ LoadInit
    \/ LoadCall
    \/ Launch
    \/ RuntimeExit

\* The daemon runs on its own thread once started; its first pass over the
\* models ends at some time of its own.
DaemonFirstPass ==
    /\ cron = "running"
    /\ cron' = "synced"
    /\ UNCHANGED <<pc, error, env, file0, file, dirs, used_ports, api_spec,
                   predictor_type, caching_enabled, taken, tfs, tfs_config, calls>>

Next ==
    \/ MainNext
    \/ DaemonFirstPass

Spec == Init /\ [][Next]_vars

\* main() is a sequential program: while it has not handed over to uvicorn,
\* its next statement is executed, every collaborator call returning or
\* raising.
Startup == pc # "serving" /\ MainNext

FairSpec == Spec /\ WF_vars(Startup)

\* ================================================================== claims
IsStart(c) == c.op = "start"
IsLoad(c) == c.op = "add_models_config"
IsLaunch(c) == c.op = "uvicorn.run"

\* The daemon starts, direct-load calls and runtime launches made so far.
Daemons == SelectSeq(calls, IsStart)
Loads == SelectSeq(calls, IsLoad)
Launches == SelectSeq(calls, IsLaunch)

\* Caching mode as the specification defines it: both cache sizes of the
\* models section are present and not null.
BothCacheSizesPresent(spec) ==
    /\ spec.models.t = "dict"
    /\ spec.models.cache_size.t = "int"
    /\ spec.models.disk_cache_size.t = "int"

\* The decision table of the specification.
DecisionTable(kind, caching) ==
    IF caching THEN "None"
    ELSE IF kind \in {"python", "onnx"} THEN "FileSync"
    ELSE IF kind = "tensorflow" THEN "BackingServerSync"
    ELSE "BackingServerDirectLoad"

PastDispatch == pc \in {"load_init", "load_loop", "launch", "serving", "exited"}

C2_CachingStartsNothing ==
    BothCacheSizesPresent(api_spec) => Daemons = <<>> /\ Loads = <<>>

C2_Witness ==
    /\ BothCacheSizesPresent(api_spec)
    /\ api_spec.type = "tensorflow"
    /\ Launches # <<>>

\* Classify has evaluated is_model_caching_enabled(api_spec) on a spec that
\* has a models section.
CachingEvaluated ==
    /\ api_spec # NoSpec
    /\ api_spec.models.t = "dict"
    /\ pc # "classify"
    /\ KnownType(api_spec)
    /\ api_spec.processes_per_replica # Absent

\* C3: is_model_caching_enabled returns true iff both cache sizes are present
\* and not null, and false (never an error) when either is absent or null.
C3_CachingIffBothPresent ==
    CachingEvaluated =>
        /\ error.key # "predictor.models"
        /\ caching_enabled = BothCacheSizesPresent(api_spec)

\* main() has passed the planner (lines 77-85) with the flag set.
PlannerDone ==
    /\ Truthy(env.CORTEX_MULTIPLE_TF_SERVERS)
    /\ env.CORTEX_PROVIDER # Unread

\* C4: for num_processes >= 1 the table the planner leaves in the file has
\* exactly the keys str(base_port) .. str(base_port + num_processes - 1), all
\* mapped to false, whatever the file held before.
C4_PortTableExact ==
    (PlannerDone /\ int(env.CORTEX_PROCESSES_PER_REPLICA) >= 1) =>
        LET base_port == int(env.CORTEX_TF_BASE_SERVING_PORT)
            num_processes == int(env.CORTEX_PROCESSES_PER_REPLICA)
        IN  /\ file.state = "complete"
            /\ DOMAIN file.table =
                 {str(base_port + i) : i \in 0..(num_processes - 1)}
            /\ \A k \in DOMAIN file.table : IsInt(k) /\ file.table[k] = FALSE
            /\ {int(k) : k \in DOMAIN file.table} =
                 base_port..(base_port + num_processes - 1)
            /\ Cardinality(DOMAIN file.table) = num_processes

C4_Witness ==
    /\ PlannerDone
    /\ file0 = StaleFile
    /\ env.CORTEX_TF_BASE_SERVING_PORT = <<"9">>
    /\ DOMAIN file.table = {<<"9">>, <<"1", "0">>}

\* A call that configures a backing server, or starts the daemon that does.
IsBackingServerAction(c) ==
    \/ c.op = "add_models_config"
    \/ c.op = "start" /\ c.daemon = "TFSModelLoader"

\* C5: in a run that creates a port table, the file holds the complete table
\* of num_processes entries whenever a backing-server call has been issued or
\* a backing-server daemon started.
C5_TableCompleteBeforeBackingServers ==
    (/\ Truthy(env.CORTEX_MULTIPLE_TF_SERVERS)
     /\ \E i \in 1..Len(calls) : IsBackingServerAction(calls[i])) =>
        /\ file.state = "complete"
        /\ Cardinality(DOMAIN file.table) = int(env.CORTEX_PROCESSES_PER_REPLICA)
        /\ file.table = used_ports

C5_Witness ==
    /\ Truthy(env.CORTEX_MULTIPLE_TF_SERVERS)
    /\ pc = "load_loop"
    /\ Len(Loads) = 1
    /\ Cardinality(DOMAIN file.table) = 2

\* load_tensorflow_serving_models has returned.
DirectLoadDone ==
    /\ taken = <<"BackingServerDirectLoad">>
    /\ pc \in {"launch", "serving", "exited"}

NotBlank(c) == c # " "

RECURSIVE JoinNames(_)
\* ",".join(names)
JoinNames(names) ==
    IF Len(names) = 1 THEN names[1]
    ELSE names[1] \o <<",">> \o JoinNames(Tail(names))

\* The direct-load calls are exactly n, the i-th to host:(base_port + i - 1),
\* each with every model name of CORTEX_MODELS (blanks and commas removed),
\* each name's path under the model directory, and replace_models false.
DirectLoadsAre(n) ==
    LET host == getenv(env.CORTEX_TF_SERVING_HOST, Localhost)
        base_port == int(getenv(env.CORTEX_TF_BASE_SERVING_PORT, DefaultPort))
    IN  /\ Len(Loads) = n
        /\ {Loads[i].address : i \in 1..Len(Loads)} =
             {host \o <<":">> \o str(base_port + i) : i \in 0..(n - 1)}
        /\ \A i \in 1..Len(Loads) :
             LET c == Loads[i]
             IN  /\ c.address = host \o <<":">> \o str(base_port + i - 1)
                 /\ c.replace_models = FALSE
                 /\ c.models # <<>>
                 /\ JoinNames(c.models) = SelectSeq(env.CORTEX_MODELS, NotBlank)
                 /\ \A j \in 1..Len(c.models) :
                      \A m \in 1..Len(c.models[j]) : c.models[j][m] \notin {" ", ","}
                 /\ Len(c.base_paths) = Len(c.models)
                 /\ \A j \in 1..Len(c.models) :
                      c.base_paths[j] = env.CORTEX_MODEL_DIR \o <<"/">> \o c.models[j]

\* C6 as claimed: with the Neuron kind and caching disabled, the dispatcher
\* issues exactly as many direct-load calls as the configured process count
\* (CORTEX_PROCESSES_PER_REPLICA), one per port from base_port on.
C6_OneLoadPerConfiguredProcess ==
    (DirectLoadDone /\ IsInt(env.CORTEX_PROCESSES_PER_REPLICA)) =>
        DirectLoadsAre(int(env.CORTEX_PROCESSES_PER_REPLICA))

\* C6 amended: once load_tensorflow_serving_models has returned, the calls
\* issued are exactly n, one per port from base_port on, where n is
\* CORTEX_PROCESSES_PER_REPLICA if CORTEX_MULTIPLE_TF_SERVERS is set and 1 if
\* it is not.
C6_OneLoadPerLoaderProcess ==
    DirectLoadDone =>
        DirectLoadsAre(IF Truthy(env.CORTEX_MULTIPLE_TF_SERVERS)
                       THEN int(env.CORTEX_PROCESSES_PER_REPLICA)
                       ELSE 1)

C6_Witness ==
    /\ DirectLoadDone
    /\ Truthy(env.CORTEX_MULTIPLE_TF_SERVERS)
    /\ env.CORTEX_PROCESSES_PER_REPLICA = <<"2">>
    /\ env.CORTEX_TF_BASE_SERVING_PORT = DefaultPort
    /\ Len(Loads) = 2
    /\ Len(Loads[2].models) = 2
    /\ Loads[2].address = Localhost \o <<":", "9", "0", "0", "1">>

\* The value of a variable the runtime launcher needs is missing or not a
\* number.
BadNumber(v) == v # Unread /\ (v = Missing \/ ~IsInt(v))

\* C7: if the serving port, the process count, the concurrency limit or the
\* backlog is missing or non-numeric, uvicorn.run is never invoked, and the
\* read of the bad value aborts main() with its KeyError or ValueError.
C7_BadLauncherValueNeverLaunches ==
    /\ BadNumber(env.CORTEX_PROCESSES_PER_REPLICA) =>
         /\ Launches = <<>>
         /\ pc \notin {"serving", "exited"}
    /\ \A v \in {env.CORTEX_SERVING_PORT, env.CORTEX_MAX_PROCESS_CONCURRENCY,
                 env.CORTEX_SO_MAX_CONN} :
         BadNumber(v) =>
           /\ Launches = <<>>
           /\ pc = "aborted"
           /\ error.exc = (IF v = Missing THEN "KeyError" ELSE "ValueError")
    /\ Launches # <<>> =>
         \A v \in {env.CORTEX_SERVING_PORT, env.CORTEX_PROCESSES_PER_REPLICA,
                   env.CORTEX_MAX_PROCESS_CONCURRENCY, env.CORTEX_SO_MAX_CONN} :
           v # Unread /\ IsInt(v)

C7_Witness ==
    /\ pc = "aborted"
    /\ env.CORTEX_SERVING_PORT = <<"8">>
    /\ env.CORTEX_MAX_PROCESS_CONCURRENCY = <<"8">>
    /\ env.CORTEX_SO_MAX_CONN = Missing
    /\ Daemons # <<>>

\* main() ended on a configuration value that is absent or malformed.
MissingConfiguration ==
    /\ pc = "aborted"
    /\ error.exc \in {"KeyError", "ValueError", "TypeError"}

\* C8: a run that aborts with MissingConfiguration has written no port
\* table, started no daemon and issued no direct-load call.
C8_MissingConfigurationIsPreflight ==
    MissingConfiguration =>
        /\ file = file0
        /\ Daemons = <<>>
        /\ Loads = <<>>

\* C9: a direct-load call that fails is the last thing main() does: main()
\* is aborted on it, no other call goes to its address (no retry), no call
\* follows it (no later index, no launch), and every call before it that
\* succeeded still has its configuration on its backing server.
C9_FailedLoadAbortsWithoutRollback ==
    /\ \A k \in 1..Len(calls) :
         (IsLoad(calls[k]) /\ ~calls[k].ok) =>
           /\ k = Len(calls)
           /\ pc = "aborted"
           /\ error.exc = "TFSError"
           /\ Launches = <<>>
           /\ \A j \in 1..Len(calls) :
                (j # k /\ IsLoad(calls[j])) => calls[j].address # calls[k].address
    /\ \A j \in 1..Len(calls) :
         (IsLoad(calls[j]) /\ calls[j].ok) =>
           [address |-> calls[j].address, models |-> calls[j].models,
            base_paths |-> calls[j].base_paths] \in tfs_config

C9_Witness ==
    /\ pc = "aborted"
    /\ Len(Loads) = 2
    /\ Loads[1].ok
    /\ ~Loads[2].ok
    /\ Cardinality(tfs_config) = 1

\* C10: at most one daemon is started in a run, a run that starts a daemon
\* issues no direct-load call and a run that issues direct-load calls starts
\* no daemon, and the direct-load calls are at most num_processes (the
\* loader's: CORTEX_PROCESSES_PER_REPLICA with the flag set, else 1).
C10_SideEffectsExclusiveAndBounded ==
    /\ Len(Daemons) <= 1
    /\ Daemons # <<>> => Loads = <<>>
    /\ Loads # <<>> =>
         /\ Daemons = <<>>
         /\ Len(Loads) <= (IF Truthy(env.CORTEX_MULTIPLE_TF_SERVERS)
                           THEN int(env.CORTEX_PROCESSES_PER_REPLICA)
                           ELSE 1)

C10_Witness ==
    /\ Len(Daemons) = 1
    /\ Daemons[1].daemon = "TFSModelLoader"
    /\ Daemons[1].ok
    /\ Launches # <<>>

\* C11: main() never waits for the daemon: while the daemon is still in its
\* first pass, main() always has a next step of its own to take, unless it
\* has ended, so uvicorn.run is reached with the first pass still running.
C11_MainNeverWaitsForDaemon ==
    (cron = "running" /\ pc \notin {"aborted", "exited"}) => ENABLED MainNext

C11_Witness ==
    /\ Launches # <<>>
    /\ pc = "serving"
    /\ cron = "running"

\* A call that raised instead of returning.
CallFailed(c) == c.op # "uvicorn.run" /\ ~c.ok

\* C12: a failure ends main() in the aborted state, in which uvicorn.run has
\* not been invoked and no step of main() is left; uvicorn.run is invoked at
\* most once, as the last call, after every earlier call returned, the
\* dispatch was done and the port table (if any) complete; main() does
\* nothing more after it returns.
C12_FailureAbortsBeforeSingleLaunch ==
    /\ pc = "aborted" <=> error # NoError
    /\ pc = "aborted" => Launches = <<>> /\ ~ENABLED MainNext
    /\ (\E i \in 1..Len(calls) : CallFailed(calls[i])) => pc = "aborted"
    /\ file.state \in {"empty", "partial"} => pc \in {"dump_ports", "aborted"}
    /\ Len(Launches) <= 1
    /\ Launches # <<>> =>
         /\ calls[Len(calls)].op = "uvicorn.run"
         /\ pc \in {"serving", "exited"}
         /\ Len(taken) = 1
         /\ Truthy(env.CORTEX_MULTIPLE_TF_SERVERS) => file.state = "complete"
         /\ taken[1] = "BackingServerDirectLoad" => Len(Loads) = tfs.num_processes
    /\ pc = "exited" => Launches # <<>> /\ ~ENABLED MainNext

C12_Witness ==
    /\ pc = "aborted"
    /\ error.exc = "DaemonError"
    /\ Len(calls) >= 4

\* C13: a port table is written only when the multi-backing-server flag is
\* set and the predictor kind is TensorFlowNeuron.
C13_TableOnlyForNeuron ==
    /\ file # file0 => Truthy(env.CORTEX_MULTIPLE_TF_SERVERS)
    /\ (file # file0 /\ api_spec # NoSpec) => api_spec.type = "tensorflow_neuron"

IsMakedirs(c) == c.op = "makedirs"
IsWait(c) == c.op = "wait_neuron_rtd"

Makedirs == SelectSeq(calls, IsMakedirs)

\* Both cron directories have been made, in order, without error.
CronDirsMade ==
    /\ Len(Makedirs) = 2
    /\ \A i \in 1..2 : Makedirs[i].path = CronDirs[i] /\ Makedirs[i].ok
    /\ \A i \in 1..2 : CronDirs[i] \in dirs

C14_Inv ==
    /\ BothCacheSizesPresent(api_spec) => Makedirs = <<>>
    /\ Len(Makedirs) <= 2
    /\ (pc \in {"dispatch", "load_init", "load_loop", "launch", "serving", "exited"}
        /\ ~BothCacheSizesPresent(api_spec)) => CronDirsMade
    /\ \A i \in 1..Len(calls) :
         (IsStart(calls[i]) \/ IsLoad(calls[i])) =>
           /\ CronDirsMade
           /\ \A j \in 1..Len(calls) : IsMakedirs(calls[j]) => j < i
    /\ \A i \in 1..Len(Makedirs) :
         /\ Makedirs[i].ok => Makedirs[i].path \in dirs
         /\ ~Makedirs[i].ok => Makedirs[i].path \notin dirs

C14_Frame ==
    /\ dirs \subseteq dirs'
    /\ dirs' # dirs => ~BothCacheSizesPresent(api_spec) /\ pc = "makedirs"
    /\ (pc = "makedirs" /\ \A i \in 1..2 : CronDirs[i] \in dirs) =>
         (dirs' = dirs /\ pc' # "aborted")

\* C14: the two cron directories are made exactly when caching is disabled,
\* and then before any daemon start or direct-load call; making a directory
\* that exists changes nothing and raises nothing; with caching enabled no
\* directory is made.
C14_CronDirsIffCachingDisabled == [](C14_Inv) /\ [][C14_Frame]_vars

C14_Witness ==
    /\ CronDirsMade
    /\ Len(Daemons) = 1
    /\ pc = "launch"

\* CORTEX_ACTIVE_NEURON has been read and is set.
NeuronFlagSet == env.CORTEX_ACTIVE_NEURON \notin {Unread, Missing, <<>>}

\* C15: with the sidecar flag set, wait_neuron_rtd is the first thing main()
\* does: nothing is written, retrieved, made, started, loaded or launched
\* before it returns, and nothing at all if it fails; with the flag unset it
\* is never called.
C15_SidecarReadyFirst ==
    /\ Len(SelectSeq(calls, IsWait)) <= 1
    /\ (file # file0 \/ calls # <<>> \/ api_spec # NoSpec \/ used_ports # <<>>) =>
         env.CORTEX_ACTIVE_NEURON # Unread
    /\ NeuronFlagSet =>
         /\ calls # <<>>
         /\ IsWait(calls[1])
         /\ ~calls[1].ok =>
              /\ Len(calls) = 1
              /\ pc = "aborted"
              /\ error.exc = "SidecarNotReady"
              /\ file = file0
              /\ api_spec = NoSpec
    /\ ~NeuronFlagSet => SelectSeq(calls, IsWait) = <<>>

C15_Witness ==
    /\ NeuronFlagSet
    /\ calls[1].ok
    /\ file # file0
    /\ Loads # <<>>
    /\ Launches # <<>>

\* C16: a failed write of the port table ends main() there: the spec is not
\* retrieved, no directory made, no daemon started, no direct-load call
\* issued and the runtime not launched; a table left empty or partial is
\* never followed by a further step.
C16_WriteFailureAborts ==
    /\ error.key = "used_ports.json" =>
         /\ pc = "aborted"
         /\ api_spec = NoSpec
         /\ env.CORTEX_PROVIDER = Unread
         /\ \A i \in 1..Len(calls) : IsWait(calls[i])
         /\ cron = "none"
    /\ (file.state \in {"empty", "partial"} /\ pc # "dump_ports") =>
         error.key = "used_ports.json"

C16_Witness ==
    /\ error.key = "used_ports.json"
    /\ file.state = "partial"
    /\ file.table # <<>>
    /\ file0 = StaleFile

\* How far main() has come: the statements in program order, the passes of
\* the loader's loop counted one by one.
Rank ==
    CASE pc = "log_config" -> 0
      [] pc = "neuron" -> 1
      [] pc = "ports" -> 2
      [] pc = "open_ports" -> 3
      [] pc = "dump_ports" -> 4
      [] pc = "get_spec" -> 5
      [] pc = "classify" -> 6
      [] pc = "makedirs" -> 7
      [] pc = "dispatch" -> 8
      [] pc = "load_init" -> 9
      [] pc = "load_loop" -> 10 + tfs.w
      [] pc = "launch" -> 1000
      [] pc = "serving" -> 1001
      [] pc = "exited" -> 1002
      [] pc = "aborted" -> 1003

\* Everything main() itself changes.
MainVars == <<pc, error, env, file, dirs, used_ports, api_spec, predictor_type,
              caching_enabled, taken, tfs, tfs_config, calls>>

C17_Inv ==
    /\ ~(pc = "aborted" /\ Launches # <<>>)
    /\ Loads # <<>> =>
         /\ tfs.num_processes = (IF Truthy(env.CORTEX_MULTIPLE_TF_SERVERS)
                                 THEN int(env.CORTEX_PROCESSES_PER_REPLICA)
                                 ELSE 1)
         /\ Len(Loads) <= tfs.num_processes
    /\ \A i, j \in 1..Len(calls) : i # j => calls[i] # calls[j]

\* C17: every run ends, after finitely many steps, with uvicorn.run invoked or
\* with main() aborted, never both; every step of main() takes it further in
\* the program (none is repeated or retried, no call is made twice), and the
\* loader's loop issues at most num_processes calls.
C17_StartupTerminates ==
    /\ <>(pc = "aborted" \/ Launches # <<>>)
    /\ [](C17_Inv)
    /\ [][MainVars' # MainVars => Rank' > Rank]_vars

C17_Witness ==
    /\ pc = "serving"
    /\ Len(Loads) = 2
    /\ tfs.w = 2
    /\ cron = "none"

\* The ports the direct-load calls were addressed to, as host:port.
LoadAddresses == {Loads[i].address : i \in 1..Len(Loads)}

\* C18: in a run that has written the port table and completed its
\* direct-load calls, the calls went to exactly the ports that are the keys of
\* the table, one call per key, and uvicorn.run is given as many workers as
\* the table has entries.
C18_PlannerMatchesDispatcher ==
    /\ (PlannerDone /\ DirectLoadDone) =>
         /\ file.state = "complete"
         /\ LoadAddresses = {Address(tfs.host, k) : k \in DOMAIN file.table}
         /\ Len(Loads) = Cardinality(DOMAIN file.table)
         /\ tfs.base_port = int(env.CORTEX_TF_BASE_SERVING_PORT)
         /\ tfs.num_processes = Cardinality(DOMAIN file.table)
    /\ (PlannerDone /\ Launches # <<>>) =>
         Launches[1].workers = Cardinality(DOMAIN file.table)

C18_Witness ==
    /\ PlannerDone
    /\ DirectLoadDone
    /\ Launches # <<>>
    /\ Launches[1].workers = 2
    /\ DOMAIN file.table = {<<"9">>, <<"1", "0">>}
    /\ Len(Loads) = 2

\* main() is past the planner: the table, if there is one, has been written.
PastPlanner == pc \notin {"log_config", "neuron", "ports", "open_ports", "dump_ports"}

\* C19: the file is touched only by the planner's open and dump; from then on
\* (dispatch, direct-load calls, launch, the daemon's pass) it stays as it is;
\* and with CORTEX_MULTIPLE_TF_SERVERS unset it stays as main() found it.
C19_TableWrittenOnce ==
    /\ [](~Truthy(env.CORTEX_MULTIPLE_TF_SERVERS) => file = file0)
    /\ [][file' # file => /\ pc \in {"open_ports", "dump_ports"}
                          /\ Truthy(env.CORTEX_MULTIPLE_TF_SERVERS)]_vars
    /\ [][PastPlanner => file' = file /\ PastPlanner']_vars

C19_Witness ==
    /\ ~Truthy(env.CORTEX_MULTIPLE_TF_SERVERS)
    /\ file0 = StaleFile
    /\ file = StaleFile
    /\ Len(Loads) = 1
    /\ pc = "serving"

====
